---- MODULE Spec2Model ----
(***************************************************************************)
(* A model of src/genetic_algorithm.py: the GeneticAlgorithm engine that   *)
(* searches a portfolio allocation.  run() is modelled step by step (one   *)
(* action per statement group of run() and per operator call), its locals  *)
(* are the variables below.                                                *)
(*                                                                         *)
(* Numbers.  Python floats are modelled as exact rationals <<n, d>> in     *)
(* lowest terms with d > 0, extended with the three IEEE specials the code *)
(* can produce: -inf (the fitness sentinel), +inf and NaN (roulette        *)
(* weights built from a -inf fitness).  Rounding error is not modelled.    *)
(*                                                                         *)
(* Lists.  A chromosome is a sequence of rationals, a population a         *)
(* sequence of chromosomes.  The only in-place update of the code,         *)
(* _mutate, is applied to the list _crossover has just built (line 79      *)
(* always builds a new list), so no list that is mutated is shared and     *)
(* value semantics is exact.                                               *)
(***************************************************************************)
EXTENDS Integers, Sequences, FiniteSets

VARIABLES
    cfg,              \* the constructor's arguments, stored by __init__
    pc,               \* position in __init__ / run()
    population,       \* run(): population
    gen,              \* run(): the loop variable gen
    graded,           \* run(): graded
    next_population,  \* run(): next_population
    parent1,          \* run(): parent1
    parent2,          \* run(): parent2
    child,            \* run(): child
    reports,          \* the points handed to write_api.write, in order
    appended,         \* ghost: children appended since the last loop top
    error,            \* the exception that left run(), or "none"
    result            \* run()'s return value

vars == <<cfg, pc, population, gen, graded, next_population, parent1, parent2,
          child, reports, appended, error, result>>

-----------------------------------------------------------------------------
(* Bounds of the model *)

MaxPop == 2

MaxGen == 2

-----------------------------------------------------------------------------
(* Exact rationals with the IEEE specials *)

Abs(x) == IF x < 0 THEN -x ELSE x

RECURSIVE Gcd(_, _)
Gcd(a, b) == IF b = 0 THEN a ELSE Gcd(b, a % b)

Lcm(a, b) == (a \div Gcd(a, b)) * b

\* n/d in lowest terms with a positive denominator (d # 0)
Rat(n, d) ==
    LET g == Gcd(Abs(n), Abs(d))
        s == IF d < 0 THEN -1 ELSE 1
    IN  <<(s * n) \div g, (s * d) \div g>>

Zero == <<0, 1>>

One == <<1, 1>>

NegInf == <<-1, 0>>

PosInf == <<1, 0>>

NaN == <<0, 0>>

IsFinite(x) == x[2] # 0

RAdd(a, b) ==
    LET l == Lcm(a[2], b[2])
    IN  Rat(a[1] * (l \div a[2]) + b[1] * (l \div b[2]), l)

RNeg(a) == <<-a[1], a[2]>>

RSub(a, b) == RAdd(a, RNeg(b))

RMul(a, b) ==
    LET g1 == Gcd(Abs(a[1]), b[2])
        g2 == Gcd(Abs(b[1]), a[2])
    IN  Rat((a[1] \div g1) * (b[1] \div g2), (a[2] \div g2) * (b[2] \div g1))

\* a / b for b # 0
RDiv(a, b) == RMul(a, Rat(b[2], b[1]))

RLt(a, b) == a[1] * b[2] < b[1] * a[2]

\* float subtraction, addition and comparison on the extended values
FSub(a, b) ==
    IF a = NaN \/ b = NaN THEN NaN
    ELSE IF IsFinite(a) /\ IsFinite(b) THEN RSub(a, b)
    ELSE IF IsFinite(a) THEN RNeg(b)
    ELSE IF IsFinite(b) THEN a
    ELSE IF a = b THEN NaN ELSE a

FAdd(a, b) ==
    IF a = NaN \/ b = NaN THEN NaN
    ELSE IF IsFinite(a) /\ IsFinite(b) THEN RAdd(a, b)
    ELSE IF IsFinite(a) THEN b
    ELSE IF IsFinite(b) THEN a
    ELSE IF a = b THEN a ELSE NaN

FLt(a, b) ==
    IF a = NaN \/ b = NaN THEN FALSE
    ELSE IF a = b THEN FALSE
    ELSE IF a = NegInf \/ b = PosInf THEN TRUE
    ELSE IF a = PosInf \/ b = NegInf THEN FALSE
    ELSE RLt(a, b)

FLe(a, b) == a # NaN /\ b # NaN /\ ~FLt(b, a)

RECURSIVE Sum(_)
Sum(s) == IF s = <<>> THEN Zero ELSE FAdd(Sum(SubSeq(s, 1, Len(s) - 1)), s[Len(s)])

-----------------------------------------------------------------------------
(* The inputs of a run: random draws, rates, registries *)

\* values random.random() returns, in [0, 1)
RandomDraws == {<<0, 1>>, <<1, 2>>}

\* the epsilon of the roulette weights is 1 / EpsDen
EpsDen == 1000000

\* the bounds of _mutate's random.uniform
MutLo == <<-1, 10>>

MutHi == <<1, 10>>

Asset(r, k) == [expected_return |-> r, risk |-> k]

\* one asset whose fitness denominator 1 - R + G is always zero
RegDegenerate == <<Asset(<<0, 1>>, <<1, 1>>)>>

\* two assets: fitness is the first weight, and -inf when that weight is 0
RegMixed == <<Asset(<<1, 1>>, <<0, 1>>), Asset(<<0, 1>>, <<1, 1>>)>>

\* two assets with negative returns: every fitness is negative and finite
RegNegative == <<Asset(<<-1, 2>>, <<0, 1>>), Asset(<<-1, 4>>, <<0, 1>>)>>

-----------------------------------------------------------------------------
(* The operators of GeneticAlgorithm, as functions of their random draws *)

\* _random_chromosome divides by zero
RandomChromosomeRaises(draws) == Len(draws) > 0 /\ Sum(draws) = Zero

RandomChromosome(draws) ==
    LET total == Sum(draws)
    IN  [i \in 1..Len(draws) |-> RDiv(draws[i], total)]

Fitness(chromosome, assets) ==
    LET n == IF Len(chromosome) < Len(assets) THEN Len(chromosome) ELSE Len(assets)
        R == Sum([i \in 1..n |-> RMul(chromosome[i], assets[i].risk)])
        G == Sum([i \in 1..n |-> RMul(chromosome[i], assets[i].expected_return)])
        d == RAdd(RSub(One, R), G)
    IN  IF d = Zero THEN NegInf
        ELSE RDiv(RMul(RMul(<<2, 1>>, RSub(One, R)), G), RAdd(RSub(One, R), G))

\* random.uniform(a, b) is a + (b - a) * random()
Uniform(a, b, u) == RAdd(a, RMul(RSub(b, a), u))

Clamp01(x) == IF RLt(x, Zero) THEN Zero ELSE IF RLt(x, One) THEN x ELSE One

\* _mutate without its final division by the total
MutateUnnormalized(chromosome, idx, change) ==
    [chromosome EXCEPT ![idx] = Clamp01(RAdd(chromosome[idx], change))]

\* _mutate on the list it is given; idx is randrange's value plus one
Mutate(chromosome, idx, change) ==
    LET c1 == [chromosome EXCEPT ![idx] = Clamp01(RAdd(chromosome[idx], change))]
        t1 == Sum(c1)
        c2 == IF t1 = Zero THEN [c1 EXCEPT ![idx] = One] ELSE c1
        total == IF t1 = Zero THEN One ELSE t1
    IN  [i \in 1..Len(c2) |-> RDiv(c2[i], total)]

\* the test of line 73
CopyBranch(u, crossover_rate) == RLt(crossover_rate, u)

Blend(p1, p2, u, alpha, crossover_rate) ==
    LET n == IF Len(p1) < Len(p2) THEN Len(p1) ELSE Len(p2)
    IN  IF CopyBranch(u, crossover_rate) THEN p1
        ELSE [i \in 1..n |-> RAdd(RMul(alpha, p1[i]),
                                  RMul(RSub(One, alpha), p2[i]))]

CrossoverRaises(p1, p2, u, alpha, crossover_rate) ==
    LET c == Blend(p1, p2, u, alpha, crossover_rate)
    IN  Len(c) > 0 /\ Sum(c) = Zero

Crossover(p1, p2, u, alpha, crossover_rate) ==
    LET c == Blend(p1, p2, u, alpha, crossover_rate)
        total == Sum(c)
    IN  [i \in 1..Len(c) |-> RDiv(c[i], total)]

\* the first element, as if the sequence were ranked
FirstOf(seq, assets) == seq[1]

\* max(seq, key=self._fitness): the first element of greatest fitness
RECURSIVE MaxByFitness(_, _)
MaxByFitness(seq, assets) ==
    IF Len(seq) = 1 THEN seq[1]
    ELSE LET m == MaxByFitness(SubSeq(seq, 1, Len(seq) - 1), assets)
             x == seq[Len(seq)]
         IN  IF FLt(Fitness(m, assets), Fitness(x, assets)) THEN x ELSE m

\* x placed after every element whose fitness is at least its own
RECURSIVE InsertDesc(_, _, _)
InsertDesc(sorted, x, assets) ==
    IF sorted = <<>> THEN <<x>>
    ELSE IF FLt(Fitness(sorted[Len(sorted)], assets), Fitness(x, assets))
         THEN Append(InsertDesc(SubSeq(sorted, 1, Len(sorted) - 1), x, assets),
                     sorted[Len(sorted)])
         ELSE Append(sorted, x)

\* sorted(population, key=self._fitness, reverse=True): stable, descending
RECURSIVE SortDesc(_, _)
SortDesc(pop, assets) ==
    IF pop = <<>> THEN <<>>
    ELSE InsertDesc(SortDesc(SubSeq(pop, 1, Len(pop) - 1), assets), pop[Len(pop)], assets)

\* graded[-elitism:], the lowest ranked instead of the highest
ElitesFromTail(g, elitism) ==
    LET hi == IF elitism < 0 THEN 0 ELSE IF elitism > Len(g) THEN Len(g) ELSE elitism
    IN  SubSeq(g, Len(g) - hi + 1, Len(g))

\* graded[:elitism], a Python slice
Elites(g, elitism) ==
    LET stop == IF elitism < 0 THEN Len(g) + elitism ELSE elitism
        hi == IF stop < 0 THEN 0 ELSE IF stop > Len(g) THEN Len(g) ELSE stop
    IN  SubSeq(g, 1, hi)

\* the loop test with <= for <
NeedsChildInclusive(np, population_size) == Len(np) <= population_size

\* the loop test of line 99
NeedsChild(np, population_size) == Len(np) < population_size

\* random.sample(graded, k): k distinct positions, in any order
Samples(n, k) ==
    {s \in [1..k -> 1..n] : \A i, j \in 1..k : i # j => s[i] # s[j]}

TournamentSize(g) == IF Len(g) < 3 THEN Len(g) ELSE 3

Tournament(g, sample, assets) ==
    MaxByFitness([i \in 1..Len(sample) |-> g[sample[i]]], assets)

RECURSIVE MinOf(_)
MinOf(fs) ==
    IF Len(fs) = 1 THEN fs[1]
    ELSE LET m == MinOf(SubSeq(fs, 1, Len(fs) - 1))
         IN  IF FLt(fs[Len(fs)], m) THEN fs[Len(fs)] ELSE m

\* A roulette weight is the value base + k / EpsDen, kept as the pair
\* [base, k] so that the exact value stays within TLC's integers.
Weight(base, k) == [base |-> base, k |-> k]

\* base + k / EpsDen > 0, exactly: n/d + k/EpsDen > 0 iff n * EpsDen > -(k * d)
WPositive(w) ==
    \/ w.base = PosInf
    \/ /\ IsFinite(w.base)
       /\ w.base[1] > (-(w.k * w.base[2])) \div EpsDen

RECURSIVE WSum(_)
WSum(ws) ==
    IF ws = <<>> THEN Weight(Zero, 0)
    ELSE LET r == WSum(SubSeq(ws, 1, Len(ws) - 1))
         IN  Weight(FAdd(r.base, ws[Len(ws)].base), r.k + ws[Len(ws)].k)

\* the weights of line 89: f - min_f + 1e-6
RouletteWeights(g, assets) ==
    LET fitnesses == [i \in 1..Len(g) |-> Fitness(g[i], assets)]
        min_f == MinOf(fitnesses)
    IN  [i \in 1..Len(g) |-> Weight(FSub(fitnesses[i], min_f), 1)]

\* random.choices raises ValueError: the total of the weights is not greater
\* than zero, or is not finite (inf or NaN)
ChoicesRaises(weights) ==
    LET total == WSum(weights)
    IN  ~IsFinite(total.base) \/ ~WPositive(total)

\* the positions random.choices can return: position i is returned when the
\* draw times the total falls in i's interval of the cumulative weights, which
\* some draw in [0, 1) does exactly when weights[i] > 0
Choices(weights) == {i \in 1..Len(weights) : WPositive(weights[i])}

\* the record _log_generation hands to write_api.write; nothing when no
\* client is attached.  `fails` is whether write raises: the except clause
\* swallows it, so it changes nothing.
LogGeneration(log, write_api, generation, best, score, fails) ==
    IF ~write_api THEN log
    ELSE Append(log, [generation |-> generation, best |-> best, score |-> score])

-----------------------------------------------------------------------------
(* Configurations *)

SelectionTypes == {"roulette", "tournament"}

\* crossover_rate and mutation_rate: the two ends of [0, 1].  With the draws
\* of RandomDraws, rate 0 takes both branches of line 73 and never mutates,
\* rate 1 always blends and always mutates (a mutation by 0 among them).
Rates == {<<0, 1>>, <<1, 1>>}

\* rates outside [0, 1]
BadRates == {<<-1, 2>>, <<3, 2>>}

Registries == {RegDegenerate, RegMixed, RegNegative}

\* what section 3 of the specification calls a valid engine configuration
ValidConfig(c) ==
    /\ Len(c.assets) > 0
    /\ c.population_size > 0
    /\ c.generations >= 0
    /\ c.elitism >= 0 /\ c.elitism <= c.population_size
    /\ FLe(Zero, c.crossover_rate) /\ FLe(c.crossover_rate, One)
    /\ FLe(Zero, c.mutation_rate) /\ FLe(c.mutation_rate, One)
    /\ c.selection_type \in SelectionTypes

Configs ==
    {c \in [assets : Registries,
            population_size : 1..MaxPop,
            generations : 0..MaxGen,
            crossover_rate : Rates,
            mutation_rate : Rates,
            elitism : 0..MaxPop,
            selection_type : SelectionTypes,
            write_api : BOOLEAN] : ValidConfig(c)}

\* the arguments a caller can pass, valid or not: __init__ takes them all
AnyConfigs ==
    [assets : {<<>>, RegDegenerate, RegMixed},
     population_size : 0..MaxPop,
     generations : {0, 1},
     crossover_rate : Rates \cup BadRates,
     mutation_rate : Rates \cup BadRates,
     elitism : -1..(MaxPop + 1),
     selection_type : SelectionTypes,
     write_api : {FALSE}]

-----------------------------------------------------------------------------
(* The state machine of __init__ and run() *)

NoChromosome == <<>>

Start(c) ==
    /\ cfg = c
    /\ pc = "new"
    /\ population = <<>>
    /\ gen = 0
    /\ graded = <<>>
    /\ next_population = <<>>
    /\ parent1 = NoChromosome
    /\ parent2 = NoChromosome
    /\ child = NoChromosome
    /\ reports = <<>>
    /\ appended = 0
    /\ error = "none"
    /\ result = <<>>

Init == \E c \in Configs : Start(c)

Raise(e) == pc' = "raised" /\ error' = e

\* __init__ stores its arguments; it checks none of them
Construct ==
    /\ pc = "new"
    /\ pc' = "init"
    /\ UNCHANGED <<cfg, population, gen, graded, next_population, parent1,
                   parent2, child, reports, appended, error, result>>

\* line 93: one more _random_chromosome(), or the comprehension is complete
InitPopulation ==
    /\ pc = "init"
    /\ IF Len(population) < cfg.population_size
       THEN \E draws \in [1..Len(cfg.assets) -> RandomDraws] :
              IF RandomChromosomeRaises(draws)
              THEN Raise("ZeroDivisionError") /\ UNCHANGED population
              ELSE /\ population' = Append(population, RandomChromosome(draws))
                   /\ UNCHANGED <<pc, error>>
       ELSE pc' = "loop" /\ UNCHANGED <<population, error>>
    /\ UNCHANGED <<cfg, gen, graded, next_population, parent1, parent2, child,
                   reports, appended, result>>

\* lines 94-98: the loop test, the ranking, the report and the elites;
\* graded[0] raises IndexError on an empty population
LoopTop ==
    /\ pc = "loop"
    /\ IF gen < cfg.generations
       THEN IF population = <<>>
            THEN /\ Raise("IndexError")
                 /\ graded' = <<>>
                 /\ UNCHANGED <<reports, next_population, appended>>
            ELSE \E fails \in BOOLEAN :
                   /\ graded' = SortDesc(population, cfg.assets)
                   /\ reports' = LogGeneration(reports, cfg.write_api, gen, graded'[1],
                                               Fitness(graded'[1], cfg.assets), fails)
                   /\ next_population' = Elites(graded', cfg.elitism)
                   /\ appended' = 0
                   /\ pc' = "while"
                   /\ UNCHANGED error
       ELSE /\ pc' = "final"
            /\ UNCHANGED <<graded, reports, next_population, appended, error>>
    /\ UNCHANGED <<cfg, population, gen, parent1, parent2, child, result>>

\* line 99 and line 106: the inner loop's test; when it fails the new
\* population replaces the old one and the outer loop steps
WhileTest ==
    /\ pc = "while"
    /\ IF NeedsChild(next_population, cfg.population_size)
       THEN pc' = "select1" /\ UNCHANGED <<population, gen>>
       ELSE /\ population' = next_population
            /\ gen' = gen + 1
            /\ pc' = "loop"
    /\ UNCHANGED <<cfg, graded, next_population, parent1, parent2, child,
                   reports, appended, error, result>>

\* the chromosomes one call _select_parent(graded) can return
Selected(g, c) ==
    IF c.selection_type = "tournament"
    THEN {Tournament(g, s, c.assets) : s \in Samples(Len(g), TournamentSize(g))}
    ELSE {g[i] : i \in Choices(RouletteWeights(g, c.assets))}

SelectRaises(g, c) ==
    c.selection_type # "tournament" /\ ChoicesRaises(RouletteWeights(g, c.assets))

\* lines 100 and 101: one call of _select_parent
SelectParent ==
    /\ pc \in {"select1", "select2"}
    /\ IF SelectRaises(graded, cfg)
       THEN Raise("ValueError") /\ UNCHANGED <<parent1, parent2>>
       ELSE \E p \in Selected(graded, cfg) :
              /\ IF pc = "select1"
                 THEN parent1' = p /\ pc' = "select2" /\ UNCHANGED parent2
                 ELSE parent2' = p /\ pc' = "cross" /\ UNCHANGED parent1
              /\ UNCHANGED error
    /\ UNCHANGED <<cfg, population, gen, graded, next_population, child,
                   reports, appended, result>>

\* line 102: child = self._crossover(parent1, parent2)
CrossoverStep ==
    /\ pc = "cross"
    /\ \E u \in RandomDraws, alpha \in RandomDraws :
         IF CrossoverRaises(parent1, parent2, u, alpha, cfg.crossover_rate)
         THEN Raise("ZeroDivisionError") /\ UNCHANGED child
         ELSE /\ child' = Crossover(parent1, parent2, u, alpha, cfg.crossover_rate)
              /\ pc' = "mutate"
              /\ UNCHANGED error
    /\ UNCHANGED <<cfg, population, gen, graded, next_population, parent1,
                   parent2, reports, appended, result>>

\* the end of one pass of the inner loop, after line 105's append
Forget ==
    /\ parent1' = NoChromosome
    /\ parent2' = NoChromosome
    /\ child' = NoChromosome
    /\ appended' = appended + 1
    /\ pc' = "while"
    /\ UNCHANGED error

\* line 103: the test that decides whether the child is mutated
MutationDrawn(u, mutation_rate) == RLt(u, mutation_rate)

\* lines 103-105: mutate the child with probability mutation_rate, append it;
\* randrange(0) raises ValueError.  parent1, parent2 and child are dead once
\* the child is appended (each is assigned again before it is next read), so
\* the model forgets them there.
MutateAppend ==
    /\ pc = "mutate"
    /\ \E u \in RandomDraws :
         IF MutationDrawn(u, cfg.mutation_rate)
         THEN IF Len(cfg.assets) = 0
              THEN /\ Raise("ValueError")
                   /\ UNCHANGED <<parent1, parent2, child, next_population, appended>>
              ELSE \E idx \in 1..Len(cfg.assets), v \in RandomDraws :
                     /\ next_population' =
                            Append(next_population,
                                   Mutate(child, idx, Uniform(MutLo, MutHi, v)))
                     /\ Forget
         ELSE /\ next_population' = Append(next_population, child)
              /\ Forget
    /\ UNCHANGED <<cfg, population, gen, graded, reports, result>>

\* lines 107-109: the best of the final population, the last report, the
\* return value; max() raises ValueError on an empty population
Finalize ==
    /\ pc = "final"
    /\ IF population = <<>>
       THEN Raise("ValueError") /\ UNCHANGED <<reports, result>>
       ELSE \E fails \in BOOLEAN :
              LET best == MaxByFitness(population, cfg.assets)
              IN  /\ reports' = LogGeneration(reports, cfg.write_api, cfg.generations,
                                              best, Fitness(best, cfg.assets), fails)
                  /\ result' = <<best, Fitness(best, cfg.assets)>>
                  /\ pc' = "done"
                  /\ UNCHANGED error
    /\ UNCHANGED <<cfg, population, gen, graded, next_population, parent1,
                   parent2, child, appended>>

Next ==
    \/ Construct
    \/ InitPopulation
    \/ LoopTop
    \/ WhileTest
    \/ SelectParent
    \/ CrossoverStep
    \/ MutateAppend
    \/ Finalize

Spec == Init /\ [][Next]_vars

\* the same engine started from any arguments, invalid ones included
InitAny == \E c \in AnyConfigs : Start(c)

SpecAny == InitAny /\ [][Next]_vars

-----------------------------------------------------------------------------
(* Properties *)

Range(seq) == {seq[i] : i \in 1..Len(seq)}

Normalized(ch) ==
    /\ Len(ch) = Len(cfg.assets)
    /\ \A i \in 1..Len(ch) : IsFinite(ch[i]) /\ FLe(Zero, ch[i])
    /\ Sum(ch) = One

Score(ch) == Fitness(ch, cfg.assets)

InGeneration == pc \in {"while", "select1", "select2", "cross", "mutate"}

Ended == pc \in {"done", "raised"}

\* C1: at the start of every generation 0..generations (the loop top, and
\* from there on) the population holds exactly population_size chromosomes.
C1_PopulationSize ==
    pc \in {"loop", "final", "done"} \cup {"while", "select1", "select2", "cross", "mutate"}
        => Len(population) = cfg.population_size

\* a population built by two reproduce steps that appended children
C1_Witness ==
    /\ pc = "loop"
    /\ gen = 2
    /\ cfg.elitism < cfg.population_size
    /\ appended > 0
    /\ Len(population) = cfg.population_size

\* C2: with elitism > 0, graded is the population ranked by descending
\* fitness, its first `elitism` entries are the first entries of the next
\* population all the while that population is filled, and they are still
\* its first entries when it becomes the population of generation g+1.
C2_Elitism ==
    cfg.elitism > 0 =>
        /\ InGeneration =>
              /\ \A i \in 1..(Len(graded) - 1) : FLe(Score(graded[i + 1]), Score(graded[i]))
              /\ \A x \in Range(population) :
                    Cardinality({i \in 1..Len(graded) : graded[i] = x})
                        = Cardinality({i \in 1..Len(population) : population[i] = x})
              /\ Len(next_population) >= cfg.elitism
              /\ \A i \in 1..cfg.elitism : next_population[i] = graded[i]
        /\ (pc = "loop" /\ gen > 0) =>
              \A i \in 1..cfg.elitism : population[i] = graded[i]

\* generation g+1 starts with the elite of generation g followed by a child
\* that no chromosome of generation g equals
C2_Witness ==
    /\ pc = "loop"
    /\ gen > 0
    /\ cfg.elitism = 1
    /\ cfg.population_size = 2
    /\ population[1] = graded[1]
    /\ population[2] \notin Range(graded)
    /\ FLt(Score(graded[2]), Score(graded[1]))

\* C3: every chromosome _random_chromosome, _crossover or _mutate has produced
\* has genes >= 0 that sum to 1: the populations, the selected parents, the
\* child _crossover returned and the child _mutate left.
C3_Normalized ==
    /\ \A ch \in Range(population) \cup Range(graded) \cup Range(next_population) :
          Normalized(ch)
    /\ pc \in {"select2", "cross", "mutate"} => Normalized(parent1)
    /\ pc \in {"cross", "mutate"} => Normalized(parent2)
    /\ pc = "mutate" => Normalized(child)

\* a blended and then mutated child, different from every chromosome it was
\* bred from, has been appended
C3_Witness ==
    /\ pc = "while"
    /\ gen > 0
    /\ appended > 0
    /\ cfg.mutation_rate = One
    /\ cfg.crossover_rate = One
    /\ next_population[Len(next_population)] \notin Range(graded)
    /\ \E i \in 1..Len(cfg.assets) :
          next_population[Len(next_population)][i] \notin {Zero, One, <<1, 2>>}

\* the reports a complete run hands to the sink: generations 0..generations
ReportsComplete ==
    /\ Len(reports) = cfg.generations + 1
    /\ \A i \in 1..Len(reports) : reports[i].generation = i - 1

\* C4: with a sink attached, a run that has ended has reported exactly
\* generations + 1 times, with indices 0..generations in order.
C4_ReportsEveryGeneration ==
    (Ended /\ cfg.write_api) => ReportsComplete

\* C5: arguments that __init__ has accepted form a valid configuration.
C5_InvalidConfigRejected ==
    pc # "new" => ValidConfig(cfg)

\* C6: a run with a valid configuration never ends with an exception.
C6_NeverRaises ==
    pc # "raised"

\* C7: roulette selection on a non-empty ranked population does not raise.
C7_RouletteNeverRaises ==
    (pc \in {"select1", "select2"} /\ cfg.selection_type = "roulette" /\ graded # <<>>)
        => ~SelectRaises(graded, cfg)

\* C8: a run ends after exactly `generations` reproduction cycles, and each
\* completed cycle appended exactly population_size - elitism children.
C8_ExactlyGenerationsCycles ==
    /\ Ended => gen = cfg.generations
    /\ (pc = "loop" /\ gen > 0) => appended = cfg.population_size - cfg.elitism

\* C9: the pair run() returns is a member of the final population whose
\* fitness no other member exceeds, with that fitness as the score; with
\* generations = 0 nothing was ranked, selected or appended.
C9_ReturnsBest ==
    pc = "done" =>
        /\ result[1] \in Range(population)
        /\ \A ch \in Range(population) : FLe(Score(ch), Score(result[1]))
        /\ result[2] = Score(result[1])
        /\ cfg.generations = 0 =>
              appended = 0 /\ graded = <<>> /\ next_population = <<>>

\* the best chromosome is not the first of the final population, which
\* children of a reproduce step make up
C9_Witness ==
    /\ pc = "done"
    /\ gen > 0
    /\ appended > 0
    /\ Len(population) = 2
    /\ FLt(Score(population[1]), Score(population[2]))
    /\ result = <<population[2], Score(population[2])>>

\* C10: with crossover_rate = 0 the child _crossover returns is parent1,
\* gene for gene, whatever the draw.
C10_RateZeroCopiesParent1 ==
    (pc = "mutate" /\ cfg.crossover_rate = Zero) => child = parent1

-----------------------------------------------------------------------------
(* What holds of the runs that the exceptions above do not end *)

\* a run that returns has reported generations 0..generations, the last
\* report being the returned pair
CompletedRunReportsAll ==
    (pc = "done" /\ cfg.write_api) =>
        /\ ReportsComplete
        /\ reports[Len(reports)].best = result[1]
        /\ reports[Len(reports)].score = result[2]

\* the report of generation gen is the top-ranked chromosome and its score
ReportsAreRanked ==
    (InGeneration /\ cfg.write_api) =>
        /\ Len(reports) = gen + 1
        /\ reports[gen + 1] =
              [generation |-> gen, best |-> graded[1], score |-> Score(graded[1])]
        /\ \A ch \in Range(population) : FLe(Score(ch), reports[gen + 1].score)

\* a run that returns has run exactly `generations` cycles
CompletedRunCycles == pc = "done" => gen = cfg.generations

\* with a valid configuration run() raises only from the division of
\* _random_chromosome and from roulette selection over a -inf fitness
RaisedOnlyArithmetic ==
    pc = "raised" =>
        \/ error = "ZeroDivisionError" /\ Len(population) < cfg.population_size /\ gen = 0
        \/ /\ error = "ValueError" /\ cfg.selection_type = "roulette"
           /\ \E ch \in Range(graded) : Score(ch) = NegInf

\* roulette selection over finite fitnesses does not raise and can return
\* every member of the ranked population
FiniteRouletteOk ==
    (pc \in {"select1", "select2"} /\ cfg.selection_type = "roulette"
       /\ \A ch \in Range(graded) : IsFinite(Score(ch)))
        => ~SelectRaises(graded, cfg) /\ Selected(graded, cfg) = Range(graded)

\* with crossover_rate = 0 only the draw 0 blends
BlendOnlyAtZeroDraw ==
    (pc = "mutate" /\ cfg.crossover_rate = Zero /\ child # parent1) =>
        \E alpha \in RandomDraws : child = Crossover(parent1, parent2, Zero, alpha, Zero)

====
